---- MODULE Spec2Model ----
(***************************************************************************)
(* Spackel: a stack language over one data type, the signed 32-bit         *)
(* integer.  The module models the front end declared by                   *)
(* tree-sitter-spackel/grammar.js (lexical rules, macro definitions), the  *)
(* macro expander, and the interpreter over the instruction set that       *)
(* README.md documents.                                                    *)
(*                                                                         *)
(* Characters are one-element strings; a text is a sequence of them.  Two  *)
(* characters outside ASCII are written by name: "eszett" is U+00DF and    *)
(* "clown" is U+1F921.                                                     *)
(***************************************************************************)
EXTENDS Integers, Sequences, FiniteSets, TLC

(***************************************************************************)
(* Values: i32.  Every operator below stays inside [MinI32, MaxI32] in all *)
(* of its intermediate results.                                            *)
(***************************************************************************)
MaxI32 == 2147483647
MinI32 == -2147483647 - 1
Half == 65536
Byte == 256

\* a + b reduced to 32-bit two's complement
Add32(a, b) ==
  IF a >= 0 /\ b >= 0 /\ a > MaxI32 - b
    THEN (a - MaxI32 - 1) + (b - MaxI32 - 1)
  ELSE IF a < 0 /\ b < 0 /\ a < MinI32 - b
    THEN (a + MaxI32 + 1) + (b + MaxI32 + 1)
  ELSE a + b

\* a - b reduced to 32-bit two's complement
Sub32(a, b) ==
  IF a >= 0 /\ b < 0 /\ a > MaxI32 + b
    THEN (a - MaxI32 - 1) - (b + MaxI32 + 1)
  ELSE IF a < 0 /\ b >= 0 /\ a < MinI32 + b
    THEN (a + MaxI32 + 1) - (b - MaxI32 - 1)
  ELSE a - b

\* the signed value of the 32-bit pattern hi * 2^16 + lo, hi and lo in 0..65535
FromHalves(hi, lo) == (IF hi >= Half \div 2 THEN hi - Half ELSE hi) * Half + lo

\* (x * y) mod 2^16 for x, y in 0..65535, by the bytes of y
MulLow16(x, y) ==
  (((x * (y % Byte)) % Half) + (((x * (y \div Byte)) % Byte) * Byte)) % Half

\* (x * y) div 2^16 mod 2^16 for x, y in 0..65535, by the bytes of y
MulHigh16(x, y) ==
  LET p0 == x * (y % Byte)
      p1 == x * (y \div Byte)
  IN (((p0 + (Byte * (p1 % Byte))) \div Half) + (p1 \div Byte)) % Half

\* a * b reduced to 32-bit two's complement, by the 16-bit halves of a and b
Mul32(a, b) ==
  LET al == a % Half
      ah == (a \div Half) % Half
      bl == b % Half
      bh == (b \div Half) % Half
      hi == (MulHigh16(al, bl) + MulLow16(ah, bl) + MulLow16(al, bh)) % Half
  IN FromHalves(hi, MulLow16(al, bl))

\* the quotient of a by p > 0, truncated toward zero
TruncPos(a, p) ==
  IF a >= 0 THEN a \div p
  ELSE (a \div p) + (IF a % p # 0 THEN 1 ELSE 0)

\* a / b for b # 0: truncated toward zero, reduced to 32 bits
Div32(a, b) ==
  IF b > 0 THEN TruncPos(a, b)
  ELSE IF b = -1 THEN Sub32(0, a)
  ELSE IF b = MinI32 THEN (IF a = MinI32 THEN 1 ELSE 0)
  ELSE 0 - TruncPos(a, 0 - b)

\* the mathematical modulo instead: never negative
ModPos(a, p) == a % p

\* the remainder of a by p > 0, with the sign of a
RemPos(a, p) ==
  IF a >= 0 THEN a % p
  ELSE IF a % p = 0 THEN 0 ELSE (a % p) - p

\* a % b for b # 0: the remainder of the truncating division
Rem32(a, b) ==
  IF b > 0 THEN RemPos(a, b)
  ELSE IF b = -1 THEN 0
  ELSE IF b = MinI32 THEN (IF a = MinI32 THEN 0 ELSE a)
  ELSE RemPos(a, 0 - b)

\* an override table that lacks the pair (10, 9)
SillyAddOneWay(a, b) ==
  IF a = 9 /\ b = 10 THEN 21
  ELSE IF a = 1 /\ b = 1 THEN 1
  ELSE Add32(a, b)

\* silly addition: the override table, then ordinary addition
SillyAdd(a, b) ==
  IF (a = 9 /\ b = 10) \/ (a = 10 /\ b = 9) THEN 21
  ELSE IF a = 1 /\ b = 1 THEN 1
  ELSE Add32(a, b)

Eszett == 1945

\* print-char: the value as unsigned, as a Unicode scalar value or U+FFFD
ReplacementChar == 65533
MaxScalar == 1114111
SurrogateLo == 55296
SurrogateHi == 57343
CharOf(v) ==
  IF v < 0 \/ v > MaxScalar \/ (v >= SurrogateLo /\ v <= SurrogateHi)
    THEN ReplacementChar
  ELSE v

(***************************************************************************)
(* Stack machine semantics.  The stack is a sequence, its top at the end.  *)
(* An instruction of a Program is a constant push or a built-in operator.  *)
(***************************************************************************)
BinaryOps == {"+", "-", "*", "/", "%", "+clown", "swap", "over", "nip", "tuck"}
UnaryOps == {"drop", "dup", "println", "print-char"}
Builtins == BinaryOps \cup UnaryOps \cup {"eszett"}

Push(v) == [op |-> "push", arg |-> v]
Op(name) == [op |-> name, arg |-> 0]

\* nip taken to need the one value it keeps
ArityNipOne(op) ==
  IF op \in BinaryOps \ {"nip"} THEN 2
  ELSE IF op \in UnaryOps \cup {"nip"} THEN 1
  ELSE 0

\* the number of values an instruction needs on the stack
Arity(op) ==
  IF op \in BinaryOps THEN 2
  ELSE IF op \in UnaryOps THEN 1
  ELSE 0

Drop(b) == << >>
Dup(b) == <<b, b>>
Swap(a, b) == <<b, a>>
\* over that copies the top instead of the second element
OverCopiesTop(a, b) == <<a, b, b>>
Over(a, b) == <<a, b, a>>
Nip(a, b) == <<b>>
Tuck(a, b) == <<b, a, b>>

\* what a binary operator leaves in place of a, b (b on top)
Binary(op, a, b) ==
  CASE op = "+" -> <<Add32(a, b)>>
    [] op = "-" -> <<Sub32(a, b)>>
    [] op = "*" -> <<Mul32(a, b)>>
    [] op = "/" -> <<Div32(a, b)>>
    [] op = "%" -> <<Rem32(a, b)>>
    [] op = "+clown" -> <<SillyAdd(a, b)>>
    [] op = "swap" -> Swap(a, b)
    [] op = "over" -> Over(a, b)
    [] op = "nip" -> Nip(a, b)
    [] op = "tuck" -> Tuck(a, b)

\* what a unary operator leaves in place of b
Unary(op, b) ==
  CASE op = "dup" -> Dup(b)
    [] op = "drop" -> Drop(b)
    [] op = "println" -> << >>
    [] op = "print-char" -> << >>

\* the stack after instruction i, which finds its arguments on s
Exec(i, s) ==
  LET n == Len(s)
  IN CASE i.op = "push" -> Append(s, i.arg)
       [] i.op = "eszett" -> Append(s, Eszett)
       [] i.op \in UnaryOps -> SubSeq(s, 1, n - 1) \o Unary(i.op, s[n])
       [] i.op \in BinaryOps -> SubSeq(s, 1, n - 2) \o Binary(i.op, s[n - 1], s[n])

\* what instruction i prints, given the stack s it finds
Emit(i, s) ==
  CASE i.op = "println" -> <<[kind |-> "line", val |-> s[Len(s)]]>>
    [] i.op = "print-char" -> <<[kind |-> "char", val |-> CharOf(s[Len(s)])]>>
    [] OTHER -> << >>

\* the fault instruction i raises on stack s, or "none"
Fault(i, s) ==
  IF Len(s) < Arity(i.op) THEN "StackUnderflow"
  ELSE IF i.op \in {"/", "%"} /\ s[Len(s)] = 0 THEN "DivisionByZero"
  ELSE "none"

VARIABLES
  src,       \* the source text
  pos,       \* the lexer's position in src
  pstate,    \* the parse state: "top", "name", "body"
  cur,       \* the macro definition that is open
  tokens,    \* the tokens the lexer has produced
  items,     \* the items parsed so far
  table,     \* the MacroTable: the definitions, in source order
  expanded,  \* macro name -> its expanded body
  epos,      \* the next item of the expander's pass
  phase,     \* the pipeline stage at work: "parse", "expand", "run", "halt"
  program,   \* the flat Program
  pc,        \* the position of the next instruction
  stack,     \* the value stack
  out,       \* what has been printed
  status     \* "idle", "running", "done", or the error that ended the pipeline

parseVars == <<src, pos, pstate, cur, tokens, items>>
expandVars == <<table, expanded, epos>>
runVars == <<program, pc, stack, out>>
vars == <<src, pos, pstate, cur, tokens, items, table, expanded, epos,
          phase, program, pc, stack, out, status>>

(***************************************************************************)
(* The lexical rules of grammar.js.  A token is the longest match at the   *)
(* position, among the symbols the parse state admits; of two rules that   *)
(* match the same text the earlier one (number) wins; a word whose text is *)
(* a keyword is that keyword where the parse state admits it.              *)
(***************************************************************************)
Whitespace == {" ", "\n", "\t"}
Digits == {"0", "1", "2", "3", "4", "5", "6", "7", "8", "9"}
MacroText == <<"m", "a", "c", "r", "o">>
EndText == <<"e", "n", "d">>

\* line_comment: /#.*/ ends before the line break
RECURSIVE CommentEnd(_, _)
CommentEnd(text, p) ==
  IF p > Len(text) \/ text[p] = "\n" THEN p ELSE CommentEnd(text, p + 1)

\* extras: whitespace and line comments may stand anywhere
RECURSIVE SkipExtras(_, _)
SkipExtras(text, p) ==
  IF p > Len(text) THEN p
  ELSE IF text[p] \in Whitespace THEN SkipExtras(text, p + 1)
  ELSE IF text[p] = "#" THEN SkipExtras(text, CommentEnd(text, p))
  ELSE p

\* word: /[^#\s]+/, the end of its longest match from p
RECURSIVE WordEnd(_, _)
WordEnd(text, p) ==
  IF p > Len(text) \/ text[p] \in Whitespace \/ text[p] = "#" THEN p
  ELSE WordEnd(text, p + 1)

RECURSIVE DigitsEnd(_, _)
DigitsEnd(text, p) ==
  IF p > Len(text) \/ text[p] \notin Digits THEN p ELSE DigitsEnd(text, p + 1)

\* number: /[+-]?\d+/, the end of its longest match from p (p: no match)
NumberEnd(text, p) ==
  LET q == IF p <= Len(text) /\ text[p] \in {"+", "-"} THEN p + 1 ELSE p
      e == DigitsEnd(text, q)
  IN IF e > q THEN e ELSE p

\* word: $ => $.word: the keywords are lexed as words first
Keyword(t) ==
  IF t = MacroText THEN "macro"
  ELSE IF t = EndText THEN "end"
  ELSE "none"

\* the symbols each parse state admits
Valid(st) ==
  CASE st = "top" -> {"macro", "number", "word", "eof"}
    [] st = "name" -> {"word"}
    [] st = "body" -> {"number", "word", "end"}

Token(sym, text, from, to, st) ==
  [sym |-> sym, text |-> SubSeq(text, from, to - 1), from |-> from, to |-> to, at |-> st]

\* the first rule that matches instead of the longest match
LexFirstMatch(text, p0, st) ==
  LET p == SkipExtras(text, p0)
      valid == Valid(st)
      we == IF "word" \in valid THEN WordEnd(text, p) ELSE p
      ne == IF "number" \in valid THEN NumberEnd(text, p) ELSE p
      kw == Keyword(SubSeq(text, p, we - 1))
  IN IF p > Len(text)
       THEN Token(IF "eof" \in valid THEN "eof" ELSE "error", text, p, p, st)
     ELSE IF ne > p THEN Token("number", text, p, ne, st)
     ELSE IF we > p
       THEN Token(IF kw \in valid THEN kw ELSE "word", text, p, we, st)
     ELSE Token("error", text, p, p, st)

\* the next token of text after position p0, lexed in parse state st
Lex(text, p0, st) ==
  LET p == SkipExtras(text, p0)
      valid == Valid(st)
      we == IF "word" \in valid THEN WordEnd(text, p) ELSE p
      ne == IF "number" \in valid THEN NumberEnd(text, p) ELSE p
      kw == Keyword(SubSeq(text, p, we - 1))
  IN IF p > Len(text)
       THEN Token(IF "eof" \in valid THEN "eof" ELSE "error", text, p, p, st)
     ELSE IF ne > p /\ ne >= we THEN Token("number", text, p, ne, st)
     ELSE IF we > p
       THEN Token(IF kw \in valid THEN kw ELSE "word", text, p, we, st)
     ELSE Token("error", text, p, p, st)

(***************************************************************************)
(* The grammar of grammar.js:                                              *)
(*   source_file      := (macro_definition | _instruction)*                *)
(*   macro_definition := "macro" word _instruction* "end"                  *)
(*   _instruction     := number | word                                     *)
(***************************************************************************)
NoDef == [name |-> << >>, body |-> << >>]
Instruction(t) == [kind |-> t.sym, text |-> t.text, body |-> << >>]
MacroDefinition(d) == [kind |-> "macro_definition", text |-> d.name, body |-> d.body]

\* one token: shifted, and the rule it completes reduced
ParseStep ==
  /\ phase = "parse"
  /\ LET t == Lex(src, pos, pstate)
     IN /\ tokens' = IF t.sym \in {"eof", "error"} THEN tokens ELSE Append(tokens, t)
        /\ pos' = t.to
        /\ CASE t.sym = "error" ->
                  /\ status' = "ParseError"
                  /\ phase' = "halt"
                  /\ UNCHANGED <<pstate, cur, items>>
             [] t.sym = "eof" ->
                  /\ phase' = "expand"
                  /\ UNCHANGED <<pstate, cur, items, status>>
             [] t.sym = "macro" ->
                  /\ pstate' = "name"
                  /\ UNCHANGED <<cur, items, phase, status>>
             [] t.sym = "end" ->
                  /\ items' = Append(items, MacroDefinition(cur))
                  /\ cur' = NoDef
                  /\ pstate' = "top"
                  /\ UNCHANGED <<phase, status>>
             [] t.sym \in {"number", "word"} /\ pstate = "name" ->
                  /\ cur' = [name |-> t.text, body |-> << >>]
                  /\ pstate' = "body"
                  /\ UNCHANGED <<items, phase, status>>
             [] t.sym \in {"number", "word"} /\ pstate = "body" ->
                  /\ cur' = [cur EXCEPT !.body = Append(@, Instruction(t))]
                  /\ UNCHANGED <<pstate, items, phase, status>>
             [] t.sym \in {"number", "word"} /\ pstate = "top" ->
                  /\ items' = Append(items, Instruction(t))
                  /\ UNCHANGED <<pstate, cur, phase, status>>
  /\ UNCHANGED <<src, expandVars, runVars>>

(***************************************************************************)
(* The macro expander: the table of all definitions, then every macro's    *)
(* body expanded (a macro met again while it is in progress is a cycle),   *)
(* then the instructions outside the definitions, in source order.         *)
(***************************************************************************)
BuiltinText ==
  [o \in Builtins |->
     CASE o = "+" -> <<"+">>
       [] o = "-" -> <<"-">>
       [] o = "*" -> <<"*">>
       [] o = "/" -> <<"/">>
       [] o = "%" -> <<"%">>
       [] o = "+clown" -> <<"+", "clown">>
       [] o = "eszett" -> <<"eszett">>
       [] o = "drop" -> <<"d", "r", "o", "p">>
       [] o = "dup" -> <<"d", "u", "p">>
       [] o = "swap" -> <<"s", "w", "a", "p">>
       [] o = "over" -> <<"o", "v", "e", "r">>
       [] o = "nip" -> <<"n", "i", "p">>
       [] o = "tuck" -> <<"t", "u", "c", "k">>
       [] o = "println" -> <<"p", "r", "i", "n", "t", "l", "n">>
       [] o = "print-char" -> <<"p", "r", "i", "n", "t", "-", "c", "h", "a", "r">>]
IsBuiltin(t) == \E o \in Builtins : BuiltinText[o] = t
BuiltinOf(t) == CHOOSE o \in Builtins : BuiltinText[o] = t

DigitValue(c) ==
  CASE c = "0" -> 0 [] c = "1" -> 1 [] c = "2" -> 2 [] c = "3" -> 3 [] c = "4" -> 4
    [] c = "5" -> 5 [] c = "6" -> 6 [] c = "7" -> 7 [] c = "8" -> 8 [] c = "9" -> 9
RECURSIVE Magnitude(_)
Magnitude(t) ==
  IF t = << >> THEN 0
  ELSE 10 * Magnitude(SubSeq(t, 1, Len(t) - 1)) + DigitValue(t[Len(t)])
\* the value of an integer literal: decimal digits after an optional sign
ParseInt(t) ==
  IF t[1] = "-" THEN 0 - Magnitude(Tail(t))
  ELSE IF t[1] = "+" THEN Magnitude(Tail(t))
  ELSE Magnitude(t)

Defined(tbl) == {tbl[k].text : k \in 1..Len(tbl)}
BodyOf(tbl, name) == tbl[CHOOSE k \in 1..Len(tbl) : tbl[k].text = name].body

Ok(code) == [err |-> "none", code |-> code]
Err(kind) == [err |-> kind, code |-> << >>]
Call(name) == [op |-> "call", arg |-> name]
MacroErrors == {"DuplicateMacro", "MacroCycle", "UnknownInstruction"}

\* a macro in progress met again: the cycle cut without a word
OnCycleCut(name) == Ok(<< >>)

\* a macro in progress met again: reported
OnCycle(name) == Err("MacroCycle")

\* the expansion of a sequence of instructions; inProgress are the macros
\* whose bodies are being expanded
RECURSIVE Flatten(_, _, _)
Flatten(tbl, seq, inProgress) ==
  IF seq = << >> THEN Ok(<< >>)
  ELSE LET it == Head(seq)
           first ==
             IF it.kind = "number" THEN Ok(<<Push(ParseInt(it.text))>>)
             ELSE IF IsBuiltin(it.text) THEN Ok(<<Op(BuiltinOf(it.text))>>)
             ELSE IF it.text \in Defined(tbl)
               THEN IF it.text \in inProgress THEN OnCycle(it.text)
                    ELSE Flatten(tbl, BodyOf(tbl, it.text), inProgress \cup {it.text})
             ELSE Err("UnknownInstruction")
       IN IF first.err # "none" THEN first
          ELSE LET rest == Flatten(tbl, Tail(seq), inProgress)
               IN IF rest.err # "none" THEN rest ELSE Ok(first.code \o rest.code)

\* the body of d with its calls left in place, one level only
ExpandBodyShallow(tbl, d) ==
  IF \E k \in 1..Len(d.body) :
       /\ d.body[k].kind = "word"
       /\ ~IsBuiltin(d.body[k].text)
       /\ d.body[k].text \notin Defined(tbl)
    THEN Err("UnknownInstruction")
  ELSE Ok([k \in 1..Len(d.body) |->
             IF d.body[k].kind = "number" THEN Push(ParseInt(d.body[k].text))
             ELSE IF IsBuiltin(d.body[k].text) THEN Op(BuiltinOf(d.body[k].text))
             ELSE Call(d.body[k].text)])

\* the expanded body of the definition d
ExpandBody(tbl, d) == Flatten(tbl, d.body, {d.text})

Definitions(its) == SelectSeq(its, LAMBDA it : it.kind = "macro_definition")
Unique(tbl) == \A j, k \in 1..Len(tbl) : tbl[j].text = tbl[k].text => j = k
EmptyMap == [n \in {} |-> << >>]

\* the full scan of the definitions; a name defined twice is rejected
BuildTable ==
  /\ phase = "expand"
  /\ status = "idle"
  /\ LET tbl == Definitions(items)
     IN IF Unique(tbl)
          THEN /\ table' = tbl
               /\ status' = "expanding"
               /\ UNCHANGED phase
          ELSE /\ status' = "DuplicateMacro"
               /\ phase' = "halt"
               /\ UNCHANGED table
  /\ UNCHANGED <<parseVars, expanded, epos, runVars>>

\* the next definition's body, expanded and kept
ExpandMacro ==
  /\ phase = "expand"
  /\ status = "expanding"
  /\ \E k \in 1..Len(table) :
       /\ table[k].text \notin DOMAIN expanded
       /\ \A j \in 1..(k - 1) : table[j].text \in DOMAIN expanded
       /\ LET r == ExpandBody(table, table[k])
          IN IF r.err = "none"
               THEN /\ expanded' = [n \in DOMAIN expanded \cup {table[k].text} |->
                                      IF n = table[k].text THEN r.code ELSE expanded[n]]
                    /\ UNCHANGED <<phase, status>>
               ELSE /\ status' = r.err
                    /\ phase' = "halt"
                    /\ UNCHANGED expanded
  /\ UNCHANGED <<parseVars, table, epos, runVars>>

AllExpanded == \A k \in 1..Len(table) : table[k].text \in DOMAIN expanded

\* what the item it, outside the definitions, adds to the Program
Resolve(it) ==
  IF it.kind = "macro_definition" THEN Ok(<< >>)
  ELSE IF it.kind = "number" THEN Ok(<<Push(ParseInt(it.text))>>)
  ELSE IF IsBuiltin(it.text) THEN Ok(<<Op(BuiltinOf(it.text))>>)
  ELSE IF it.text \in DOMAIN expanded THEN Ok(expanded[it.text])
  ELSE Err("UnknownInstruction")

\* the next item of the file
ExpandMain ==
  /\ phase = "expand"
  /\ status = "expanding"
  /\ AllExpanded
  /\ epos <= Len(items)
  /\ LET r == Resolve(items[epos])
     IN IF r.err = "none"
          THEN /\ program' = program \o r.code
               /\ epos' = epos + 1
               /\ UNCHANGED <<phase, status>>
          ELSE /\ status' = r.err
               /\ phase' = "halt"
               /\ UNCHANGED <<program, epos>>
  /\ UNCHANGED <<parseVars, table, expanded, pc, stack, out>>

\* the expander is through: the Program goes to the interpreter
ExpansionDone == AllExpanded /\ epos > Len(items)
StartRun ==
  /\ phase = "expand"
  /\ status = "expanding"
  /\ ExpansionDone
  /\ phase' = "run"
  /\ status' = "running"
  /\ UNCHANGED <<parseVars, expandVars, runVars>>

NextExpand == BuildTable \/ ExpandMacro \/ ExpandMain \/ StartRun

(***************************************************************************)
(* The interpreter.                                                        *)
(***************************************************************************)

\* the interpreter starts on a freshly allocated empty stack
Fresh ==
  /\ pc = 1
  /\ stack = << >>
  /\ out = << >>

\* the interpreter handed the Program prog
Start(prog) ==
  /\ src = << >> /\ pos = 1 /\ pstate = "top" /\ cur = NoDef
  /\ tokens = << >> /\ items = << >>
  /\ table = << >> /\ expanded = EmptyMap /\ epos = 1
  /\ phase = "run"
  /\ program = prog
  /\ Fresh
  /\ status = "running"

\* a division by zero coerced into the default value 0, execution going on
StepDefaultsOnZero ==
  /\ phase = "run"
  /\ status = "running"
  /\ pc <= Len(program)
  /\ LET i == program[pc]
         f == Fault(i, stack)
     IN IF f = "StackUnderflow"
          THEN /\ status' = f
               /\ phase' = "halt"
               /\ UNCHANGED <<parseVars, expandVars, program, pc, stack, out>>
          ELSE /\ stack' = IF f = "DivisionByZero"
                             THEN Append(SubSeq(stack, 1, Len(stack) - 2), 0)
                             ELSE Exec(i, stack)
               /\ out' = out \o Emit(i, stack)
               /\ pc' = pc + 1
               /\ UNCHANGED <<parseVars, expandVars, phase, program, status>>

\* one instruction: a fault halts at it, otherwise it acts and the next is due
Step ==
  /\ phase = "run"
  /\ status = "running"
  /\ pc <= Len(program)
  /\ LET i == program[pc]
         f == Fault(i, stack)
     IN IF f # "none"
          THEN /\ status' = f
               /\ phase' = "halt"
               /\ UNCHANGED <<parseVars, expandVars, program, pc, stack, out>>
          ELSE /\ stack' = Exec(i, stack)
               /\ out' = out \o Emit(i, stack)
               /\ pc' = pc + 1
               /\ UNCHANGED <<parseVars, expandVars, phase, program, status>>

\* end of Program: the normal halt
Finish ==
  /\ phase = "run"
  /\ status = "running"
  /\ pc > Len(program)
  /\ status' = "done"
  /\ phase' = "halt"
  /\ UNCHANGED <<parseVars, expandVars, program, pc, stack, out>>

NextRun == Step \/ Finish

(***************************************************************************)
(* Inputs of the interpreter alone: every Program of up to MaxProg         *)
(* instructions over the whole instruction set and the literals RunLits.   *)
(***************************************************************************)
MaxProg == 4
RunLits == {0, 1}
RunInstrs == {Push(v) : v \in RunLits} \cup {Op(o) : o \in Builtins}

InitRun == \E k \in 0..MaxProg : \E prog \in [1..k -> RunInstrs] : Start(prog)
SpecRun == InitRun /\ [][NextRun]_vars

(***************************************************************************)
(* Inputs for the arithmetic: a b OP for every pair of ArithVals, and the  *)
(* division identity a b / b * a b % +.                                    *)
(***************************************************************************)
ArithVals ==
  {MinI32, MinI32 + 1, -65537, -65536, -46341, -10, -9, -7, -2, -1,
   0, 1, 2, 3, 7, 9, 10, 255, 46341, 65535, 65536, MaxI32 - 1, MaxI32}
ArithOps == {"+", "-", "*", "/", "%", "+clown"}
BinaryProgram(a, b, o) == <<Push(a), Push(b), Op(o)>>
IdentityProgram(a, b) ==
  <<Push(a), Push(b), Op("/"), Push(b), Op("*"), Push(a), Push(b), Op("%"), Op("+")>>

InitArith ==
  \E a \in ArithVals, b \in ArithVals :
    \/ \E o \in ArithOps : Start(BinaryProgram(a, b, o))
    \/ Start(IdentityProgram(a, b))
SpecArith == InitArith /\ [][NextRun]_vars

(***************************************************************************)
(* Inputs of the whole pipeline: the source texts made of up to MaxLexemes *)
(* of the Lexemes, a blank after each.                                     *)
(***************************************************************************)
MaxLexemes == 5
Lexemes == {MacroText, EndText, <<"1">>, <<"1", "+">>, BuiltinText["println"]}
RECURSIVE Join(_)
Join(ls) == IF ls = << >> THEN << >> ELSE Head(ls) \o <<" ">> \o Join(Tail(ls))

FrontIdle ==
  /\ pos = 1 /\ pstate = "top" /\ cur = NoDef /\ tokens = << >>
  /\ table = << >> /\ expanded = EmptyMap /\ epos = 1
  /\ program = << >> /\ Fresh /\ status = "idle"

Init ==
  /\ \E k \in 0..MaxLexemes : \E ls \in [1..k -> Lexemes] : src = Join(ls)
  /\ items = << >>
  /\ phase = "parse"
  /\ FrontIdle

Next == ParseStep \/ NextExpand \/ NextRun
Spec == Init /\ [][Next]_vars

(***************************************************************************)
(* Inputs of the front end alone: the source texts made of up to MaxPieces *)
(* of the Pieces, set one after the other with nothing between them.       *)
(***************************************************************************)
MaxPieces == 5
Pieces ==
  {MacroText \o <<" ">>, EndText \o <<" ">>, <<"1">>, <<"+">>, <<"#">>, <<" ">>, <<"\n">>}
RECURSIVE Concat(_)
Concat(ps) == IF ps = << >> THEN << >> ELSE Head(ps) \o Concat(Tail(ps))

InitParse ==
  /\ \E k \in 0..MaxPieces : \E ps \in [1..k -> Pieces] : src = Concat(ps)
  /\ items = << >>
  /\ phase = "parse"
  /\ FrontIdle

SpecParse == InitParse /\ [][ParseStep]_vars

(***************************************************************************)
(* Inputs of the expander alone: no definition, a definition of f, or a    *)
(* definition of f and then one of f again or of g (the other order is the *)
(* same up to the names), bodies of up to MaxBody words, and up to MaxMain *)
(* words outside the definitions, which stand after the first definition   *)
(* and before the second.                                                  *)
(***************************************************************************)
MaxBody == 2
MaxMain == 1
NameF == <<"f">>
NameG == <<"g">>
ExpandNames == {NameF, NameG}
UnknownWord == <<"x">>
WordItem(t) == [kind |-> "word", text |-> t, body |-> << >>]
BodyWords == {WordItem(t) : t \in ExpandNames \cup {BuiltinText["dup"]}}
MainWords == BodyWords \cup {WordItem(UnknownWord)}
DefNamed(n, b) == [kind |-> "macro_definition", text |-> n, body |-> b]
\* the definitions ds with the instructions m after the first of them
Arrange(ds, m) == IF ds = << >> THEN m ELSE <<Head(ds)>> \o m \o Tail(ds)

Bodies == UNION {[1..l -> BodyWords] : l \in 0..MaxBody}

InitExpand ==
  /\ src = << >>
  /\ \E nd \in 0..Cardinality(ExpandNames), nm \in 0..MaxMain :
       \E ns \in [1..nd -> ExpandNames], bs \in [1..nd -> Bodies], m \in [1..nm -> MainWords] :
         /\ nd > 0 => ns[1] = NameF
         /\ items = Arrange([k \in 1..nd |-> DefNamed(ns[k], bs[k])], m)
  /\ phase = "expand"
  /\ FrontIdle

SpecExpand == InitExpand /\ [][NextExpand]_vars
SpecExpandFair == SpecExpand /\ WF_vars(NextExpand)

(***************************************************************************)
(* Properties of the stack machine and the interpreter.                    *)
(***************************************************************************)
RuntimeFaults == {"StackUnderflow", "DivisionByZero"}

\* the interpreter is about to execute the instruction at pc
AtInstr == phase = "run" /\ status = "running" /\ pc <= Len(program)
\* the step taken executed the instruction at pc
Executed == AtInstr /\ pc' = pc + 1
\* the instruction that acted last
LastOp == IF pc > 1 /\ pc - 1 <= Len(program) THEN program[pc - 1].op ELSE "none"
Below(s, k) == SubSeq(s, 1, Len(s) - k)

\* C1: swap, over, nip, tuck replace the two topmost values a, b (b on top) by
\* b a, a b a, b, b a b; dup and drop replace the top b by b b and by nothing;
\* every element below is left as it was.
ShapesStep ==
  Executed =>
    LET o == program[pc].op
        n == Len(stack)
        a == stack[n - 1]
        b == stack[n]
    IN /\ (o = "swap" /\ n >= 2) => stack' = Below(stack, 2) \o <<b, a>>
       /\ (o = "over" /\ n >= 2) => stack' = Below(stack, 2) \o <<a, b, a>>
       /\ (o = "nip" /\ n >= 2) => stack' = Below(stack, 2) \o <<b>>
       /\ (o = "tuck" /\ n >= 2) => stack' = Below(stack, 2) \o <<b, a, b>>
       /\ (o = "dup" /\ n >= 1) => stack' = Below(stack, 1) \o <<b, b>>
       /\ (o = "drop" /\ n >= 1) => stack' = Below(stack, 1)
\* C1: on a stack ending in a b, swap leaves b a, over a b a, nip b and
\* tuck b a b; on a stack ending in b, dup leaves b b and drop removes b;
\* everything below is untouched.
C1_StackShapes == [][ShapesStep]_vars

\* tuck has acted on two different values with a third below them
C1_Witness ==
  /\ status = "running"
  /\ LastOp = "tuck"
  /\ Len(stack) = 4
  /\ stack[3] # stack[4]
  /\ stack[1] # stack[3]

\* the operands and the operator of a program a b OP
IsBinaryProgram == Len(program) = 3 /\ program[1].op = "push" /\ program[2].op = "push"
ArgA == program[1].arg
ArgB == program[2].arg

\* reference arithmetic on the two 16-bit halves of the 32-bit patterns
RefAdd32(a, b) ==
  LET lo == (a % Half) + (b % Half)
      hi == ((a \div Half) % Half) + ((b \div Half) % Half) + (lo \div Half)
  IN FromHalves(hi % Half, lo % Half)
RefSub32(a, b) == RefAdd32(a, RefAdd32(-1 - b, 1))
\* schoolbook multiplication on the four bytes of each 32-bit pattern
ByteOf(a, i) ==
  CASE i = 0 -> a % Byte
    [] i = 1 -> (a \div Byte) % Byte
    [] i = 2 -> (a \div Half) % Byte
    [] i = 3 -> ((a \div Half) \div Byte) % Byte
RefMul32(a, b) ==
  LET c0 == ByteOf(a, 0) * ByteOf(b, 0)
      c1 == ByteOf(a, 0) * ByteOf(b, 1) + ByteOf(a, 1) * ByteOf(b, 0) + (c0 \div Byte)
      c2 == ByteOf(a, 0) * ByteOf(b, 2) + ByteOf(a, 1) * ByteOf(b, 1)
            + ByteOf(a, 2) * ByteOf(b, 0) + (c1 \div Byte)
      c3 == ByteOf(a, 0) * ByteOf(b, 3) + ByteOf(a, 1) * ByteOf(b, 2)
            + ByteOf(a, 2) * ByteOf(b, 1) + ByteOf(a, 3) * ByteOf(b, 0) + (c2 \div Byte)
  IN FromHalves((c3 % Byte) * Byte + (c2 % Byte), (c1 % Byte) * Byte + (c0 % Byte))

\* C2: +clown pushes 21 for (9,10) and (10,9), 1 for (1,1), and the 32-bit
\* wrapping sum for every other pair; it differs from + on exactly these three.
C2_SillyAddition ==
  (IsBinaryProgram /\ program[3].op = "+clown" /\ pc > 3) =>
     LET a == ArgA
         b == ArgB
         special == <<a, b>> \in {<<9, 10>>, <<10, 9>>, <<1, 1>>}
     IN /\ status \in {"running", "done"}
        /\ Len(stack) = 1
        /\ <<a, b>> \in {<<9, 10>>, <<10, 9>>} => stack[1] = 21
        /\ <<a, b>> = <<1, 1>> => stack[1] = 1
        /\ ~special => stack[1] = RefAdd32(a, b)
        /\ special <=> stack[1] # RefAdd32(a, b)

C2_Witness ==
  /\ IsBinaryProgram /\ program[3].op = "+clown" /\ status = "done"
  /\ ArgA = 10 /\ ArgB = 9 /\ stack = <<21>>

\* r lies strictly between -|b| and |b|
SmallerThan(r, b) ==
  IF b > 0 THEN r < b /\ r > 0 - b
  ELSE r > b /\ (b = MinI32 \/ r < 0 - b)
\* r is zero or has the sign of a
SignOf(r, a) == (a >= 0 => r >= 0) /\ (a <= 0 => r <= 0)
\* d is a multiple of b
MultipleOf(d, b) ==
  IF b = MinI32 THEN d \in {0, MinI32}
  ELSE d % (IF b > 0 THEN b ELSE 0 - b) = 0

\* C10: + - * push a OP b reduced to 32-bit two's complement and never
\* fault; for b # 0, / pushes the quotient truncated toward zero and % the
\* remainder with the sign of a, and (a / b) * b + (a % b) = a, also for
\* a = -2147483648, b = -1.
C10_Arithmetic ==
  /\ (IsBinaryProgram /\ program[3].op \in {"+", "-", "*"}) =>
        /\ status \in {"running", "done"}
        /\ pc > 3 =>
             /\ Len(stack) = 1
             /\ program[3].op = "+" => stack[1] = RefAdd32(ArgA, ArgB)
             /\ program[3].op = "-" => RefAdd32(stack[1], ArgB) = ArgA
             /\ program[3].op = "*" => stack[1] = RefMul32(ArgA, ArgB)
  /\ (IsBinaryProgram /\ program[3].op = "/" /\ ArgB # 0) =>
        /\ status \in {"running", "done"}
        /\ pc > 3 =>
             /\ Len(stack) = 1
             /\ LET r == RefSub32(ArgA, RefMul32(stack[1], ArgB))
                IN IF ArgA = MinI32 /\ ArgB = -1 THEN stack[1] = MinI32
                   ELSE SignOf(r, ArgA) /\ SmallerThan(r, ArgB)
  /\ (IsBinaryProgram /\ program[3].op = "%" /\ ArgB # 0) =>
        /\ status \in {"running", "done"}
        /\ pc > 3 =>
             /\ Len(stack) = 1
             /\ SignOf(stack[1], ArgA)
             /\ SmallerThan(stack[1], ArgB)
             /\ MultipleOf(ArgA - stack[1], ArgB)
  /\ (Len(program) = 9 /\ ArgB # 0) =>
        /\ status \in {"running", "done"}
        /\ pc > 9 => stack = <<ArgA>>

\* the division identity has been computed for a = -2147483648, b = -1
C10_Witness ==
  /\ Len(program) = 9 /\ status = "done"
  /\ ArgA = MinI32 /\ ArgB = -1 /\ stack = <<MinI32>>

\* C3: / or % with 0 on top of the stack is a RuntimeFault: execution halts
\* at that instruction, nothing after it is executed, and neither it nor
\* anything after it prints.
DivisionFaultStep ==
  (AtInstr /\ program[pc].op \in {"/", "%"} /\ Len(stack) >= 1 /\ stack[Len(stack)] = 0) =>
    /\ status' \in RuntimeFaults
    /\ Len(stack) >= 2 => status' = "DivisionByZero"
    /\ pc' = pc
    /\ out' = out
    /\ stack' = stack
FaultIsFinal == status \in RuntimeFaults => UNCHANGED vars
\* C3: / or % with a zero divisor ends the run in a runtime fault, pushes and
\* prints nothing, and no later instruction executes.
C3_DivisionByZero == [][DivisionFaultStep]_vars /\ [][FaultIsFinal]_vars

\* 1 0 / println, at the fault: nothing was printed, println is still ahead
C3_Witness ==
  /\ status = "DivisionByZero"
  /\ pc < Len(program)
  /\ program[pc + 1].op = "println"
  /\ out = << >>

\* the arities the language documents
DocArity(op) ==
  IF op \in {"+", "-", "*", "/", "%", "+clown", "swap", "over", "nip", "tuck"} THEN 2
  ELSE IF op \in {"drop", "dup", "println", "print-char"} THEN 1
  ELSE 0

\* C4: an instruction reached with fewer values on the stack than its arity
\* halts execution with StackUnderflow at that instruction and nothing after
\* it runs; so every instruction that executes finds its arguments on the
\* stack.
UnderflowStep ==
  (AtInstr /\ Len(stack) < DocArity(program[pc].op)) =>
    /\ status' = "StackUnderflow"
    /\ pc' = pc
    /\ out' = out
    /\ stack' = stack
ArgumentsPresent == Executed => Len(stack) >= DocArity(program[pc].op)
HaltedStays == status = "StackUnderflow" => UNCHANGED vars
\* C4: an instruction that finds fewer operands than its arity faults with
\* StackUnderflow without changing the stack or the output, and an
\* instruction only executes with its operands present.
C4_StackUnderflow ==
  [][UnderflowStep]_vars /\ [][HaltedStays]_vars /\ [][ArgumentsPresent]_vars

\* a binary operator found one value only, with instructions still ahead
C4_Witness ==
  /\ status = "StackUnderflow"
  /\ Len(stack) = 1
  /\ program[pc].op \in BinaryOps
  /\ pc < Len(program)

(***************************************************************************)
(* Properties of the front end.                                            *)
(***************************************************************************)
\* position p of src lies in a line comment
InComment(p) ==
  \E q \in 1..p : src[q] = "#" /\ \A r \in q..p : src[r] # "\n"
\* position p of src holds a character of a run
RunChar(p) == p \in 1..Len(src) /\ src[p] \notin Whitespace /\ ~InComment(p)
RunStart(p) == RunChar(p) /\ ~RunChar(p - 1)
\* the text t matches [+-]?[0-9]+ as a whole
IsNumberText(t) ==
  LET d == IF t # << >> /\ t[1] \in {"+", "-"} THEN Tail(t) ELSE t
  IN d # << >> /\ \A k \in 1..Len(d) : d[k] \in Digits

\* one token for each run read so far, in order, each the whole of its run
OneTokenPerRun ==
  /\ {tokens[k].from : k \in 1..Len(tokens)} = {p \in 1..(pos - 1) : RunStart(p)}
  /\ \A j, k \in 1..Len(tokens) : j < k => tokens[j].to <= tokens[k].from
  /\ \A k \in 1..Len(tokens) :
       /\ tokens[k].to > tokens[k].from
       /\ \A p \in tokens[k].from..(tokens[k].to - 1) : RunChar(p)
       /\ ~RunChar(tokens[k].to)
       /\ tokens[k].text = SubSeq(src, tokens[k].from, tokens[k].to - 1)

\* C8, as claimed: every maximal run of characters that are neither
\* whitespace nor part of a comment is one token, an integer literal exactly
\* when the whole run matches [+-]?[0-9]+ and a word otherwise; a comment
\* yields no token.
C8_Original ==
  /\ OneTokenPerRun
  /\ \A k \in 1..Len(tokens) : tokens[k].sym = "number" <=> IsNumberText(tokens[k].text)

\* C8: every maximal run of characters outside whitespace and comments is
\* one token and a comment yields none; a run in instruction position is an
\* integer literal exactly when it matches [+-]?[0-9]+ and a word otherwise,
\* and the run that follows the keyword macro, the name of the definition,
\* is a word whatever its text.
C8_Tokens ==
  /\ OneTokenPerRun
  /\ \A k \in 1..Len(tokens) :
       IF tokens[k].at = "name" THEN tokens[k].sym = "word"
       ELSE tokens[k].sym = "number" <=> IsNumberText(tokens[k].text)

\* 1+1#1 has been read: one word, nothing for the comment
C8_Witness ==
  /\ src = <<"1", "+", "1", "#", "1">>
  /\ phase = "expand"
  /\ Len(tokens) = 1
  /\ tokens[1].sym = "word"

\* the instructions parsed so far, outside and inside the definitions
ParsedInstructions ==
  {items[k] : k \in {j \in 1..Len(items) : items[j].kind # "macro_definition"}}
    \cup UNION {{items[k].body[j] : j \in 1..Len(items[k].body)} : k \in 1..Len(items)}
    \cup {cur.body[j] : j \in 1..Len(cur.body)}

\* C7: macro and end are reserved: the parser never yields either as an
\* instruction; an end with no definition open, a macro inside a body and
\* the end of input inside an open definition are each a ParseError.
C7_Reserved ==
  /\ \A it \in ParsedInstructions : it.text \notin {MacroText, EndText}
  /\ \A k \in 1..Len(tokens) :
       (tokens[k].text = EndText /\ tokens[k].at = "top") => status = "ParseError"
  /\ \A k \in 1..Len(tokens) :
       (tokens[k].text = MacroText /\ tokens[k].at = "body") => status = "ParseError"
  /\ (phase # "parse" /\ pstate # "top") => status = "ParseError"

(***************************************************************************)
(* Properties of the macro expander.                                       *)
(***************************************************************************)
DefItems == {items[k] : k \in {j \in 1..Len(items) : items[j].kind = "macro_definition"}}
DefNames == {d.text : d \in DefItems}
MainItems == SelectSeq(items, LAMBDA it : it.kind # "macro_definition")
\* the defined macros that the definitions of name call
CallsOf(name) ==
  UNION {{d.body[j].text : j \in {i \in 1..Len(d.body) :
                                    /\ d.body[i].kind = "word"
                                    /\ ~IsBuiltin(d.body[i].text)
                                    /\ d.body[i].text \in DefNames}} :
           d \in {e \in DefItems : e.text = name}}
\* the macros reached from the set S by k or fewer further calls
RECURSIVE Reached(_, _)
Reached(S, k) ==
  IF k = 0 THEN S ELSE Reached(S \cup UNION {CallsOf(n) : n \in S}, k - 1)
\* some macro calls itself, directly or through other macros
Cyclic == \E n \in DefNames : n \in Reached(CallsOf(n), Cardinality(DefNames))
UniqueNames ==
  \A j, k \in 1..Len(items) :
    (items[j].kind = "macro_definition" /\ items[k].kind = "macro_definition"
       /\ items[j].text = items[k].text) => j = k
IsKnown(it) == it.kind = "number" \/ IsBuiltin(it.text) \/ it.text \in DefNames
AllKnown ==
  /\ \A k \in 1..Len(MainItems) : IsKnown(MainItems[k])
  /\ \A d \in DefItems : \A j \in 1..Len(d.body) : IsKnown(d.body[j])

\* every call in seq replaced by the body of the macro, one level deep
RECURSIVE InlineOnce(_)
InlineOnce(seq) ==
  IF seq = << >> THEN << >>
  ELSE LET it == Head(seq)
       IN (IF it.kind = "word" /\ ~IsBuiltin(it.text) /\ it.text \in DefNames
             THEN (CHOOSE d \in DefItems : d.text = it.text).body
             ELSE <<it>>) \o InlineOnce(Tail(seq))
RECURSIVE InlineTimes(_, _)
InlineTimes(seq, k) == IF k = 0 THEN seq ELSE InlineTimes(InlineOnce(seq), k - 1)
AsInstruction(it) ==
  IF it.kind = "number" THEN Push(ParseInt(it.text)) ELSE Op(BuiltinOf(it.text))
\* the instructions outside the definitions with every call replaced, in
\* source order, by the fully expanded body
Substituted ==
  LET flat == InlineTimes(MainItems, Cardinality(DefNames))
  IN [k \in 1..Len(flat) |-> AsInstruction(flat[k])]

Acyclic == phase = "expand" /\ UniqueNames /\ AllKnown /\ ~Cyclic
ExpansionSafe ==
  (UniqueNames /\ AllKnown /\ ~Cyclic) =>
     /\ status \notin MacroErrors
     /\ \A k \in 1..Len(program) : program[k].op # "call"
     /\ phase = "run" => program = Substituted

CyclicRejected ==
  Cyclic => (phase # "run" /\ program = << >> /\ status \notin {"running", "done"})

\* C6: when a macro calls itself, directly or through other macros, the
\* expander terminates with a macro error and produces no Program, whether
\* or not the macro is called from outside the definitions.
C6_Cycles ==
  []CyclicRejected /\ ((phase = "expand" /\ Cyclic) ~> (status \in MacroErrors))

\* f and g call each other, and the one instruction outside calls neither
C6_Witness ==
  /\ status = "MacroCycle"
  /\ Len(items) = 3
  /\ items[1].kind = "macro_definition" /\ items[1].text = NameF
  /\ items[1].body = <<WordItem(NameG)>>
  /\ items[2] = WordItem(BuiltinText["dup"])
  /\ items[3].kind = "macro_definition" /\ items[3].text = NameG
  /\ items[3].body = <<WordItem(NameF)>>
  /\ program = << >>

(***************************************************************************)
(* Properties of the pipeline.                                             *)
(***************************************************************************)
FrontEndErrors == {"ParseError"} \cup MacroErrors
NothingExecuted == pc = 1 /\ stack = << >> /\ out = << >>
\* the source holds an end with no macro definition open
StrayEnd == \E k \in 1..Len(tokens) : tokens[k].text = EndText /\ tokens[k].at = "top"

====
